---- MODULE Spec2Model ----
(***************************************************************************)
(* A model of the sandboxed code executor of the Telegram REPL bot         *)
(* (src/code_executor.py).  CodeExecutor.execute is modelled statement by  *)
(* statement, so that the SIGALRM deadline can be delivered between any    *)
(* two statements executed while the alarm is pending.                     *)
(*                                                                         *)
(* Text is a sequence of tokens; '' is << >> and string concatenation is   *)
(* \o.  An exception is a record [kind, msg].                              *)
(***************************************************************************)
EXTENDS Integers, Sequences, FiniteSets, TLC

\* ------------------------------------------------------------- bounds
\* Number of execute calls made one after the other on the executor.
MaxCalls == 2
\* Number of statements in the body of a submitted unit.
MaxUnitLen == 2
\* Number of violations a rejected compilation may carry.
MaxErrors == 2

\* ---------------------------------------------------------- constants
\* CodeExecutor.__init__(self, timeout=10)
DefaultTimeout == 10

\* The timeouts an executor is constructed with: none (0 arms no alarm),
\* the shortest, and the default.
Timeouts == {0, 1, DefaultTimeout}

\* ALLOWED_MODULES of security_config.
ALLOWED_MODULES == {"math", "random"}

\* --------------------------------------------------------------- text
RECURSIVE JoinNewline(_)
\* '\n'.join(errors)
JoinNewline(errors) ==
    IF Len(errors) = 0 THEN << >>
    ELSE IF Len(errors) = 1 THEN << errors[1] >>
    ELSE << errors[1], "\n" >> \o JoinNewline(Tail(errors))

\* "Code compilation failed - invalid or restricted syntax"
CompilationFailedMsg == << "Code compilation failed - invalid or restricted syntax" >>

\* f"Code execution timed out after {self.timeout} seconds"
TimedOutAfterMsg(t) == << "Code execution timed out after ", ToString(t), " seconds" >>

\* f"{type(e).__name__}: {str(e)}"
KindMessage(e) == << e.kind, ": " >> \o e.msg

\* f"Compilation error: {str(e)}"
CompilationErrorMsg(e) == << "Compilation error: " >> \o e.msg

\* --------------------------------------------------------- exceptions
NoExc == [kind |-> "none", msg |-> << >>]

\* raise TimeoutError("Code execution timed out")
TimeoutExc == [kind |-> "TimeoutError", msg |-> << "Code execution timed out" >>]

\* A fault raised by a statement of the unit.
UnitExc == [kind |-> "ZeroDivisionError", msg |-> << "division by zero" >>]

\* A reference to a name bound neither in the local scope, nor in the globals
\* mapping, nor in the built-ins table.
NameExc(name) == [kind |-> "NameError", msg |-> << "name '", name, "' is not defined" >>]

\* A module whose import raises something other than ImportError.
ImportExc == [kind |-> "RuntimeError", msg |-> << "module initialisation failed" >>]

\* What compile_restricted raises on a source it rejects.
SyntaxExc(errors) == [kind |-> "SyntaxError", msg |-> JoinNewline(errors)]

\* ------------------------------------------------------------- inputs
\* A statement of a unit: write to standard output, write to standard
\* error, raise a fault.
Ops == {"out", "err", "raise"}

Bodies == UNION {[1..n -> Ops] : n \in 0..MaxUnitLen}

\* Statements on names: bind x in the local scope (x = 1), bind it in the
\* globals mapping (global x; x = 1), reference x, reference the module math.
ScopeOps == {"bind", "gbind", "ref", "use"}

\* The name each statement on names is about.
OpName(op) == IF op = "use" THEN "math" ELSE "x"

ScopeBodies == UNION {[1..n -> ScopeOps] : n \in 1..MaxUnitLen}

\* A compiled unit: its statements; whether it then spins in a compute-bound
\* loop for ever; whether its statements sit in the unit's own
\* try/except Exception handler that swallows the fault and goes on.
Units ==
    [body : Bodies, loops : BOOLEAN, catches : BOOLEAN]
    \cup [body : ScopeBodies, loops : {FALSE}, catches : BOOLEAN]

NoUnit == [body |-> << >>, loops |-> FALSE, catches |-> FALSE]

Violations == {"v1", "v2"}

ViolationLists == UNION {[1..n -> Violations] : n \in 1..MaxErrors}

\* A source text, by what compile_restricted makes of it: "none" (returns
\* None), "errors" (returns an object carrying errors), "raises" (raises
\* SyntaxError), "ok" (returns a code object).
Sources ==
    {[compile |-> "none", errors |-> << >>, unit |-> NoUnit]}
    \cup {[compile |-> k, errors |-> v, unit |-> NoUnit] :
              k \in {"errors", "raises"}, v \in ViolationLists}
    \cup {[compile |-> "ok", errors |-> << >>, unit |-> u] : u \in Units}

\* No call in progress: no argument.
NoCode == [compile |-> "none", errors |-> << >>, unit |-> NoUnit]

\* -------------------------------------------------------------- state
VARIABLES
    pc,              \* position of the caller / of execute
    timeout,         \* self.timeout
    handler,         \* the SIGALRM handler in force (process-wide)
    alarm,           \* the process's alarm: "none" or "pending"
    sys_stdout,      \* sys.stdout (process-wide)
    sys_stderr,      \* sys.stderr (process-wide)
    code,            \* execute's argument
    compiled_code,   \* local: "unset", "None", "errors" or "code"
    safe_globals,    \* local: the globals mapping, name -> value
    safe_locals,     \* local: the names bound in the local scope
    stdout_capture,  \* local: the standard-output sink
    stderr_capture,  \* local: the error-output sink
    stdout_value,    \* local
    stderr_value,    \* local
    old_handler,     \* local
    old_targets,     \* the streams the two redirections will restore
    result,          \* local: the result record
    exc,             \* the exception propagating, or NoExc
    caught,          \* the exception the except clause entered has caught (e)
    upc,             \* the unit's next statement
    calls,           \* execute calls started
    obs              \* what happened in the current call (history)

vars == << pc, timeout, handler, alarm, sys_stdout, sys_stderr, code,
           compiled_code, safe_globals, safe_locals, stdout_capture,
           stderr_capture, stdout_value, stderr_value, old_handler, old_targets, result, exc,
           caught, upc, calls, obs >>

procVars == << timeout, handler, alarm, sys_stdout, sys_stderr >>
sinkVars == << stdout_capture, stderr_capture, stdout_value, stderr_value >>

\* The names a globals mapping is looked up for: those _create_safe_globals
\* may bind, the name the units bind, and a name of the host process's own
\* module globals.
GlobalNames == {"__builtins__", "__name__", "x", "signal"} \cup ALLOWED_MODULES

\* The globals mapping before _create_safe_globals has returned one.
NoGlobals == [n \in GlobalNames |-> "unbound"]

\* The names a globals mapping binds.
Bound(g) == {n \in GlobalNames : g[n] # "unbound"}

\* Before _create_safe_globals has tried to import anything.
NoImports == [m \in ALLOWED_MODULES |-> "untried"]

\* What __import__(module_name) does for each allowed module: returns the
\* module, raises ImportError, or raises another exception.
ImportOutcomes == [ALLOWED_MODULES -> {"ok", "ImportError", "raises"}]

NoObs == [handlerBefore |-> "SIG_DFL", stdoutBefore |-> "orig_stdout",
          stderrBefore |-> "orig_stderr", built |-> FALSE, installed |-> FALSE,
          armed |-> FALSE, ran |-> FALSE, completed |-> FALSE,
          firedAt |-> "never", swallowed |-> FALSE,
          imports |-> NoImports, fault |-> NoExc, nameFaults |-> {},
          earlier |-> {}]

NoTargets == [stdout |-> "unset", stderr |-> "unset"]

EmptyResult == [success |-> FALSE, output |-> << >>, error |-> << >>]

\* ------------------------------------------- the rest of the process
\* The executor is one component of the process.  The others have their own
\* state: calls of execute made from several threads at once, the message
\* handler of the bot, and the bot's subscribers and notification loop.
VARIABLES
    frames,                 \* per thread: the frame of its execute call
    message_text,           \* handle_message: update.message.text
    executed,               \* the codes handle_message passed to execute
    replies,                \* reply_text calls of the handler
    api_failed,             \* a Telegram API call of the handler raised
    handled,                \* handle_message has run for message_text
    notification_chat_ids,  \* self.notification_chat_ids
    monitoring_task,        \* self.monitoring_task: "none" or "running"
    sending,                \* send_buy_notification: "idle" or "await_send"
    todo,                   \* the chats of the copy not yet iterated
    chat_id,                \* the loop variable: empty, or the chat of the send awaited
    nobs,                   \* what happened in the notification (history)
    uniswap_monitor,        \* self.uniswap_monitor: the DexScreenerMonitor's fields
    mpc,                    \* where the start_monitoring coroutine of the task is
    polled,                 \* check_for_new_buys: the local current_data
    live,                   \* the monitoring tasks neither finished nor cancelled
    mobs,                   \* what the monitor did (history)
    coroutines              \* per update being handled: where its handler is

callVars == << pc, code, compiled_code, safe_globals, safe_locals, stdout_capture,
               stderr_capture, stdout_value, stderr_value, old_handler, old_targets,
               result, exc, caught, upc, calls, obs >>
msgVars == << message_text, executed, replies, api_failed, handled >>
notifyVars == << notification_chat_ids, monitoring_task, sending, todo, chat_id, nobs >>
monVars == << uniswap_monitor, mpc, polled, live, mobs >>
restVars == << frames, msgVars, notifyVars, monVars, coroutines >>
allVars == << vars, restVars >>

\* The threads that call execute: the interpreter's main thread and another.
Threads == {"main", "worker"}

\* A frame of execute: its position and its locals.
IdleFrame ==
    [pc |-> "idle", code |-> NoCode, safe_locals |-> {},
     stdout_capture |-> << >>, stderr_capture |-> << >>,
     old_handler |-> "unset", old_targets |-> NoTargets,
     result |-> EmptyResult, exc |-> NoExc, caught |-> NoExc, upc |-> 1]

\* No thread is in execute.
ThreadsIdle == frames = [t \in Threads |-> IdleFrame]

\* No message has been handled.
MessagesIdle ==
    /\ message_text = << >>
    /\ executed = << >>
    /\ replies = 0
    /\ api_failed = FALSE
    /\ handled = FALSE

\* The history of the notifications: the subscribers when the current (or
\* last) invocation of send_buy_notification started, the chats it has
\* attempted a send to, in order, those whose send failed, how it ended, the
\* chats that have unsubscribed and not subscribed again, and those of them
\* that were sent a notification; the chats a failed send has removed and
\* that have not subscribed again, and those of them a send was attempted to.
NoNotification == [start |-> {}, attempts |-> << >>, failed |-> {},
                   cancelled |-> FALSE, completed |-> FALSE,
                   unsubscribed |-> {}, afterUnsubscribe |-> {},
                   dropped |-> {}, afterDrop |-> {}]

\* TelegramBot.__init__: no subscriber, no monitoring task.
NotifyIdle ==
    /\ notification_chat_ids = {}
    /\ monitoring_task = "none"
    /\ sending = "idle"
    /\ todo = {}
    /\ chat_id = {}
    /\ nobs = NoNotification

\* ------------------------------------------------ the monitor's data
\* The largest buy count a fetched snapshot reports.
MaxBuys == 1

\* What check_for_new_buys and initialize read of the first pair of a fetched
\* snapshot: txns.m5.buys, txns.h24.buys (the buys of the last 24 hours
\* include those of the last 5 minutes), and whether the fields the
\* notification is computed from (liquidity, priceUsd, volume.m5,
\* priceChange.m5) are numbers, so that float(), the division and abs() of
\* check_for_new_buys do not raise.
Snapshots ==
    {d \in [pairs : {TRUE}, m5 : 0..MaxBuys, h24 : 0..MaxBuys, numeric : BOOLEAN] :
        d.m5 <= d.h24}

\* None: no snapshot.
NoData == [pairs |-> FALSE, m5 |-> 0, h24 |-> 0, numeric |-> TRUE]

\* fetch_token_data: returns the data when it has pairs, returns None when the
\* request or the decoding fails or the data has no pairs, and lets any other
\* exception through.
FetchOutcomes ==
    [kind : {"data"}, data : Snapshots]
        \cup [kind : {"nothing", "raises"}, data : {NoData}]

\* self.uniswap_monitor = None.
NoMonitor == [exists |-> FALSE, monitoring |-> FALSE, last_m5_buys |-> 0,
              last_h24_buys |-> 0, current_data |-> NoData]

\* DexScreenerMonitor.__init__.
NewMonitor == [NoMonitor EXCEPT !.exists = TRUE]

\* The history of one poll: what its fetch did, the snapshot fetched, the
\* monitor's fields when it started, the calls of the notification callback
\* it made, whether an exception was raised in it, whether it has returned.
NoPoll == [fetch |-> "no poll", data |-> NoData, before |-> NoMonitor,
           invoked |-> 0, raised |-> FALSE, done |-> FALSE]

\* The poll before the last: whether it called the callback, and the
\* 5-minute count it fetched.
NoPrev == [detected |-> FALSE, m5 |-> 0]

\* The history of the monitoring: the last poll and the one before it;
\* whether the monitor in place has polled, what the fetch of initialize did
\* in its start_monitoring; whether /stop_roar was handled with no /start_roar
\* since, whether a poll or a callback happened in that time, and the status
\* last reported in that time; whether the last /start_roar found a task
\* running; and a mark that changes at every poll.
NoMonitoring == [poll |-> NoPoll, prev |-> NoPrev, polledYet |-> FALSE,
                 init |-> "not run", stopped |-> FALSE, afterStop |-> FALSE,
                 reported |-> "nothing", replaced |-> FALSE, tick |-> FALSE]

\* TelegramBot.__init__: no monitor, no task.
MonitorIdle ==
    /\ uniswap_monitor = NoMonitor
    /\ mpc = "off"
    /\ polled = NoData
    /\ live = 0
    /\ mobs = NoMonitoring

\* ------------------------------------------------ the bot's handlers
\* The handlers that call _execute_and_reply, each handling one update at a
\* time.
Handlers == {"run_command", "handle_message"}

\* Application.run_polling has dispatched no update yet.
HandlersIdle == coroutines = [h \in Handlers |-> "idle"]

Init ==
    /\ pc = "idle"
    /\ timeout \in Timeouts
    /\ handler = "SIG_DFL"
    /\ alarm = "none"
    /\ sys_stdout = "orig_stdout"
    /\ sys_stderr = "orig_stderr"
    /\ code = NoCode
    /\ compiled_code = "unset"
    /\ safe_globals = NoGlobals
    /\ safe_locals = {}
    /\ stdout_capture = << >>
    /\ stderr_capture = << >>
    /\ stdout_value = << >>
    /\ stderr_value = << >>
    /\ old_handler = "unset"
    /\ old_targets = NoTargets
    /\ result = EmptyResult
    /\ exc = NoExc
    /\ caught = NoExc
    /\ upc = 1
    /\ calls = 0
    /\ obs = NoObs
    /\ ThreadsIdle
    /\ MessagesIdle
    /\ NotifyIdle
    /\ MonitorIdle
    /\ HandlersIdle

localsReset ==
    /\ compiled_code' = "unset"
    /\ safe_globals' = NoGlobals
    /\ safe_locals' = {}
    /\ stdout_capture' = << >>
    /\ stderr_capture' = << >>
    /\ stdout_value' = << >>
    /\ stderr_value' = << >>
    /\ old_handler' = "unset"
    /\ old_targets' = NoTargets
    /\ exc' = NoExc
    /\ caught' = NoExc
    /\ upc' = 1

\* ------------------------------------------------- exception routing
\* class TimeoutError(Exception); every fault a unit, an import or the
\* compiler raises is an Exception too.
IsException(ex) ==
    ex.kind \in {"TimeoutError", "ZeroDivisionError", "RuntimeError", "SyntaxError",
                 "NameError", "ValueError"}

\* except TimeoutError: / except Exception as e: / finally: of the inner try.
\* A fault neither clause catches runs the finally block and goes on.
InnerHandler(ex) ==
    IF ex.kind = "TimeoutError"
    THEN [pc |-> "except_timeout", exc |-> NoExc, caught |-> ex]
    ELSE IF IsException(ex)
    THEN [pc |-> "except_other", exc |-> NoExc, caught |-> ex]
    ELSE [pc |-> "finally_alarm", exc |-> ex, caught |-> NoExc]

\* Mutant: the outer clause is narrowed to except SyntaxError.
OuterCatches_SyntaxErrorOnly(ex) == ex.kind = "SyntaxError"

\* except Exception as e: of the outer try.
OuterCatches(ex) == IsException(ex)

OuterHandler(ex) ==
    IF OuterCatches(ex)
    THEN [pc |-> "outer_except", exc |-> NoExc, caught |-> ex]
    ELSE [pc |-> "raised", exc |-> ex, caught |-> NoExc]

\* Positions inside the inner try block and outside the with statement.
InInnerTry == {"enter_stdout", "getvalue", "decide", "set_success", "set_output"}

\* Positions inside an except clause of the inner try.
InInnerExcept == {"except_timeout", "except_other"}

\* Positions inside the outer try block and outside the inner try
\* statement's try and except blocks (its finally block included).
InOuterTry == {"compile", "check_none", "check_errors", "create_globals",
               "install_handler", "arm", "enter_try", "finally_alarm",
               "finally_restore"}

\* Where control goes when ex is raised at position at of execute.
Route(ex, at) ==
    CASE at = "enter_stderr" -> [pc |-> "exit_stdout", exc |-> ex, caught |-> NoExc]
      [] at = "exec" -> [pc |-> "exit_stderr", exc |-> ex, caught |-> NoExc]
      [] at \in {"exit_stderr", "exit_stdout"} -> [pc |-> at, exc |-> ex, caught |-> NoExc]
      [] at \in InInnerTry -> InnerHandler(ex)
      [] at \in InInnerExcept -> [pc |-> "finally_alarm", exc |-> ex, caught |-> NoExc]
      [] at \in InOuterTry -> OuterHandler(ex)
      [] OTHER -> [pc |-> "raised", exc |-> ex, caught |-> NoExc]

Goto(r) ==
    /\ pc' = r.pc
    /\ exc' = r.exc
    /\ caught' = r.caught

\* ------------------------------------------------------------ execute
\* The names the unit of the current call has bound so far, in its local
\* scope or in its globals mapping.
UnitBound == safe_locals \cup {n \in GlobalNames : safe_globals[n] = "unit_value"}

\* Mutant: the result record is one object reused by every call.
FreshResult_Reused == result

\* result = {'success': False, 'output': '', 'error': ''}
FreshResult == EmptyResult

\* def execute(self, code): result = {...}
Execute ==
    /\ pc \in {"idle", "returned"}
    /\ calls < MaxCalls
    /\ \E src \in Sources : code' = src
    /\ calls' = calls + 1
    /\ result' = FreshResult
    /\ localsReset
    /\ obs' = [NoObs EXCEPT !.handlerBefore = handler,
                            !.stdoutBefore = sys_stdout,
                            !.stderrBefore = sys_stderr,
                            !.earlier = obs.earlier]
    /\ pc' = "compile"
    /\ UNCHANGED procVars

\* compiled_code = compile_restricted(code, '<string>', 'exec')
Compile ==
    /\ pc = "compile"
    /\ IF code.compile = "raises"
       THEN /\ Goto(Route(SyntaxExc(code.errors), "compile"))
            /\ UNCHANGED compiled_code
       ELSE /\ compiled_code' = CASE code.compile = "none" -> "None"
                                  [] code.compile = "errors" -> "errors"
                                  [] OTHER -> "code"
            /\ pc' = "check_none"
            /\ UNCHANGED << exc, caught >>
    /\ UNCHANGED << procVars, sinkVars, code, safe_globals, safe_locals, old_handler, old_targets,
                    result, upc, calls, obs >>

\* if compiled_code is None: result['error'] = "..."; return result
CheckNone ==
    /\ pc = "check_none"
    /\ IF compiled_code = "None"
       THEN /\ result' = [result EXCEPT !.error = CompilationFailedMsg]
            /\ pc' = "return"
       ELSE /\ pc' = "check_errors"
            /\ UNCHANGED result
    /\ UNCHANGED << procVars, sinkVars, code, compiled_code, safe_globals, safe_locals,
                    old_handler, old_targets, exc, caught, upc, calls, obs >>

\* Mutant: the errors check is dropped, a rejected compilation goes on.
HasErrors_Dropped(cc) == FALSE

\* if hasattr(compiled_code, 'errors'): result['error'] = '\n'.join(...); return
HasErrors(cc) == cc = "errors"

CheckErrors ==
    /\ pc = "check_errors"
    /\ IF HasErrors(compiled_code)
       THEN /\ result' = [result EXCEPT !.error = JoinNewline(code.errors)]
            /\ pc' = "return"
       ELSE /\ pc' = "create_globals"
            /\ UNCHANGED result
    /\ UNCHANGED << procVars, sinkVars, code, compiled_code, safe_globals, safe_locals,
                    old_handler, old_targets, exc, caught, upc, calls, obs >>

\* _create_safe_globals: the built-ins table, '__name__' and every allowed
\* module whose import succeeds; an ImportError omits the module.
\* Mutant: one failed import leaves the mapping without any module.
SafeGlobals_AllOrNothing(imports) ==
    [n \in GlobalNames |->
        CASE n = "__builtins__" -> "safe_builtins"
          [] n = "__name__" -> "__main__"
          [] n \in ALLOWED_MODULES
               /\ (\A m \in ALLOWED_MODULES : imports[m] = "ok") -> "module"
          [] OTHER -> "unbound"]

\* Mutant: the mapping is built on top of the host module's own globals.
SafeGlobals_OverHostGlobals(imports) ==
    [n \in GlobalNames |->
        CASE n = "__builtins__" -> "safe_builtins"
          [] n = "__name__" -> "__main__"
          [] n = "signal" -> "module"
          [] n \in ALLOWED_MODULES /\ imports[n] = "ok" -> "module"
          [] OTHER -> "unbound"]

SafeGlobals(imports) ==
    [n \in GlobalNames |->
        CASE n = "__builtins__" -> "safe_builtins"
          [] n = "__name__" -> "__main__"
          [] n \in ALLOWED_MODULES /\ imports[n] = "ok" -> "module"
          [] OTHER -> "unbound"]

\* Mutant: the local scope is kept on the executor and reused, so it still
\* holds what the units of earlier calls bound.
FreshLocals_Reused == obs.earlier

\* safe_locals = {}
FreshLocals == {}

\* safe_globals = self._create_safe_globals(); safe_locals = {};
\* stdout_capture = io.StringIO(); stderr_capture = io.StringIO()
CreateSafeGlobals ==
    /\ pc = "create_globals"
    /\ \E imports \in ImportOutcomes :
          /\ obs' = [obs EXCEPT !.built = TRUE, !.imports = imports]
          /\ IF \A m \in ALLOWED_MODULES : imports[m] # "raises"
             THEN /\ safe_globals' = SafeGlobals(imports)
                  /\ pc' = "install_handler"
                  /\ UNCHANGED << exc, caught >>
             ELSE /\ Goto(Route(ImportExc, "create_globals"))
                  /\ UNCHANGED safe_globals
    /\ safe_locals' = FreshLocals
    /\ UNCHANGED << procVars, sinkVars, code, compiled_code, old_handler, old_targets,
                    result, upc, calls >>

\* old_handler = signal.signal(signal.SIGALRM, self._timeout_handler)
InstallHandler ==
    /\ pc = "install_handler"
    /\ old_handler' = handler
    /\ handler' = "_timeout_handler"
    /\ obs' = [obs EXCEPT !.installed = TRUE]
    /\ pc' = "arm"
    /\ UNCHANGED << timeout, alarm, sys_stdout, sys_stderr, sinkVars, code,
                    compiled_code, old_targets, safe_globals, safe_locals, result, exc, caught, upc, calls >>

\* signal.alarm(self.timeout): alarm(0) arms nothing.
Armed(t) == IF t > 0 THEN "pending" ELSE "none"

ArmAlarm ==
    /\ pc = "arm"
    /\ alarm' = Armed(timeout)
    /\ obs' = [obs EXCEPT !.armed = (Armed(timeout) = "pending")]
    /\ pc' = "enter_try"
    /\ UNCHANGED << timeout, handler, sys_stdout, sys_stderr, sinkVars, code,
                    compiled_code, safe_globals, safe_locals, old_handler, old_targets, result, exc,
                    caught, upc, calls >>

\* try:
EnterTry ==
    /\ pc = "enter_try"
    /\ pc' = "enter_stdout"
    /\ UNCHANGED << procVars, sinkVars, code, compiled_code, safe_globals, safe_locals,
                    old_handler, old_targets, result, exc, caught, upc, calls, obs >>
\* with redirect_stdout(stdout_capture), ...: __enter__ of the first
EnterStdout ==
    /\ pc = "enter_stdout"
    /\ old_targets' = [old_targets EXCEPT !.stdout = sys_stdout]
    /\ sys_stdout' = "stdout_capture"
    /\ pc' = "enter_stderr"
    /\ UNCHANGED << timeout, handler, alarm, sys_stderr, sinkVars, code,
                    compiled_code, safe_globals, safe_locals, old_handler, result, exc,
                    caught, upc, calls, obs >>

\* ..., redirect_stderr(stderr_capture): __enter__ of the second
EnterStderr ==
    /\ pc = "enter_stderr"
    /\ old_targets' = [old_targets EXCEPT !.stderr = sys_stderr]
    /\ sys_stderr' = "stderr_capture"
    /\ obs' = [obs EXCEPT !.ran = TRUE]
    /\ pc' = "exec"
    /\ UNCHANGED << timeout, handler, alarm, sys_stdout, sinkVars, code,
                    compiled_code, safe_globals, safe_locals, old_handler, result, exc,
                    caught, upc, calls >>

\* Name lookup by the unit: the local scope, then the globals mapping, then
\* the built-ins table (which holds neither x nor a module).
Defined(name) == name \in safe_locals \/ safe_globals[name] # "unbound"

\* What a statement of the unit raises, or NoExc.
Raises(op) ==
    CASE op = "raise" -> UnitExc
      [] op \in {"ref", "use"} /\ ~Defined(OpName(op)) -> NameExc(OpName(op))
      [] OTHER -> NoExc

\* exec(compiled_code, safe_globals, safe_locals): one statement of the unit.
\* A write goes to the stream sys.stdout / sys.stderr is bound to; a fault is
\* swallowed by the unit's own handler, if it has one, or leaves the unit.
UnitStep ==
    /\ pc = "exec"
    /\ upc <= Len(code.unit.body)
    /\ LET op == code.unit.body[upc]
           ex == Raises(op)
       IN
       /\ stdout_capture' = IF op = "out" /\ sys_stdout = "stdout_capture"
                            THEN Append(stdout_capture, "text")
                            ELSE stdout_capture
       /\ stderr_capture' = IF op = "err" /\ sys_stderr = "stderr_capture"
                            THEN Append(stderr_capture, "warning")
                            ELSE stderr_capture
       /\ safe_locals' = IF op = "bind" THEN safe_locals \cup {OpName(op)}
                         ELSE safe_locals
       /\ safe_globals' = IF op = "gbind"
                          THEN [safe_globals EXCEPT ![OpName(op)] = "unit_value"]
                          ELSE safe_globals
       /\ IF ex # NoExc /\ ~code.unit.catches
          THEN /\ Goto(Route(ex, "exec"))
               /\ UNCHANGED upc
               /\ obs' = [obs EXCEPT !.fault = ex,
                              !.nameFaults = IF ex.kind = "NameError"
                                             THEN @ \cup {OpName(op)} ELSE @]
          ELSE /\ upc' = upc + 1
               /\ UNCHANGED << pc, exc, caught >>
               /\ obs' = [obs EXCEPT
                              !.nameFaults = IF ex.kind = "NameError"
                                             THEN @ \cup {OpName(op)} ELSE @]
    /\ UNCHANGED << procVars, stdout_value, stderr_value, code, compiled_code,
                    old_handler, old_targets, result, calls >>

\* exec(...): a unit that never completes on its own (while True: pass).
UnitSpin ==
    /\ pc = "exec"
    /\ upc > Len(code.unit.body)
    /\ code.unit.loops
    /\ UNCHANGED vars

\* exec(...) returns: the unit has completed.
UnitReturn ==
    /\ pc = "exec"
    /\ upc > Len(code.unit.body)
    /\ ~code.unit.loops
    /\ obs' = [obs EXCEPT !.completed = TRUE]
    /\ pc' = "exit_stderr"
    /\ UNCHANGED << procVars, sinkVars, code, compiled_code, safe_globals, safe_locals,
                    old_handler, old_targets, result, exc, caught, upc, calls >>

\* __exit__ of redirect_stderr: on the way out of the with block, with or
\* without an exception propagating.
ExitStderr ==
    /\ pc = "exit_stderr"
    /\ sys_stderr' = old_targets.stderr
    /\ pc' = "exit_stdout"
    /\ UNCHANGED << timeout, handler, alarm, sys_stdout, sinkVars, code,
                    compiled_code, safe_globals, safe_locals, old_handler, old_targets,
                    result, exc, caught, upc, calls, obs >>

\* Mutant: the stream is put back after the block instead of by a with
\* statement, so an exception leaving the block skips it.
ExitStdout_SkippedOnException ==
    /\ pc = "exit_stdout"
    /\ sys_stdout' = IF exc = NoExc THEN old_targets.stdout ELSE sys_stdout
    /\ IF exc = NoExc
       THEN /\ pc' = "getvalue"
            /\ UNCHANGED << exc, caught >>
       ELSE Goto(InnerHandler(exc))
    /\ UNCHANGED << timeout, handler, alarm, sys_stderr, sinkVars, code,
                    compiled_code, safe_globals, safe_locals, old_handler, old_targets,
                    result, upc, calls, obs >>

\* __exit__ of redirect_stdout; an exception propagating then reaches the
\* except clauses of the inner try.
ExitStdout ==
    /\ pc = "exit_stdout"
    /\ sys_stdout' = old_targets.stdout
    /\ IF exc = NoExc
       THEN /\ pc' = "getvalue"
            /\ UNCHANGED << exc, caught >>
       ELSE Goto(InnerHandler(exc))
    /\ UNCHANGED << timeout, handler, alarm, sys_stderr, sinkVars, code,
                    compiled_code, safe_globals, safe_locals, old_handler, old_targets,
                    result, upc, calls, obs >>

\* stdout_value = stdout_capture.getvalue(); stderr_value = ...
GetValue ==
    /\ pc = "getvalue"
    /\ stdout_value' = stdout_capture
    /\ stderr_value' = stderr_capture
    /\ pc' = "decide"
    /\ UNCHANGED << procVars, stdout_capture, stderr_capture, code,
                    compiled_code, safe_globals, safe_locals, old_handler, old_targets,
                    result, exc, caught, upc, calls, obs >>

\* if stderr_value: result['error'] = stderr_value / else:
Decide ==
    /\ pc = "decide"
    /\ IF stderr_value # << >>
       THEN /\ result' = [result EXCEPT !.error = stderr_value]
            /\ pc' = "finally_alarm"
       ELSE /\ pc' = "set_success"
            /\ UNCHANGED result
    /\ UNCHANGED << procVars, sinkVars, code, compiled_code, safe_globals, safe_locals,
                    old_handler, old_targets, exc, caught, upc, calls, obs >>

\* result['success'] = True
SetSuccess ==
    /\ pc = "set_success"
    /\ result' = [result EXCEPT !.success = TRUE]
    /\ pc' = "set_output"
    /\ UNCHANGED << procVars, sinkVars, code, compiled_code, safe_globals, safe_locals,
                    old_handler, old_targets, exc, caught, upc, calls, obs >>

\* result['output'] = stdout_value
SetOutput ==
    /\ pc = "set_output"
    /\ result' = [result EXCEPT !.output = stdout_value]
    /\ pc' = "finally_alarm"
    /\ UNCHANGED << procVars, sinkVars, code, compiled_code, safe_globals, safe_locals,
                    old_handler, old_targets, exc, caught, upc, calls, obs >>

\* except TimeoutError: result['error'] = f"Code execution timed out after ..."
ExceptTimeout ==
    /\ pc = "except_timeout"
    /\ result' = [result EXCEPT !.error = TimedOutAfterMsg(timeout)]
    /\ caught' = NoExc
    /\ pc' = "finally_alarm"
    /\ UNCHANGED << procVars, sinkVars, code, compiled_code, safe_globals, safe_locals,
                    old_handler, old_targets, exc, upc, calls, obs >>

\* except Exception as e: result['error'] = f"{type(e).__name__}: {str(e)}"
ExceptOther ==
    /\ pc = "except_other"
    /\ result' = [result EXCEPT !.error = KindMessage(caught)]
    /\ caught' = NoExc
    /\ pc' = "finally_alarm"
    /\ UNCHANGED << procVars, sinkVars, code, compiled_code, safe_globals, safe_locals,
                    old_handler, old_targets, exc, upc, calls, obs >>

\* Mutant: the finally block restores the handler and leaves the alarm.
FinallyAlarm_NotCancelled ==
    /\ pc = "finally_alarm"
    /\ pc' = "finally_restore"
    /\ UNCHANGED << procVars, sinkVars, code, compiled_code, safe_globals, safe_locals,
                    old_handler, old_targets, result, exc, caught, upc, calls,
                    obs >>

\* finally: signal.alarm(0)
FinallyAlarm ==
    /\ pc = "finally_alarm"
    /\ alarm' = "none"
    /\ pc' = "finally_restore"
    /\ UNCHANGED << timeout, handler, sys_stdout, sys_stderr, sinkVars, code,
                    compiled_code, safe_globals, safe_locals, old_handler, old_targets,
                    result, exc, caught, upc, calls, obs >>

\* finally: signal.signal(signal.SIGALRM, old_handler); an exception the
\* finally block was entered with then goes on to the outer try.
FinallyRestore ==
    /\ pc = "finally_restore"
    /\ handler' = old_handler
    /\ IF exc = NoExc
       THEN /\ pc' = "return"
            /\ UNCHANGED << exc, caught >>
       ELSE Goto(OuterHandler(exc))
    /\ UNCHANGED << timeout, alarm, sys_stdout, sys_stderr, sinkVars, code,
                    compiled_code, safe_globals, safe_locals, old_handler, old_targets,
                    result, upc, calls, obs >>

\* except Exception as e: result['error'] = f"Compilation error: {str(e)}"
OuterExcept ==
    /\ pc = "outer_except"
    /\ result' = [result EXCEPT !.error = CompilationErrorMsg(caught)]
    /\ caught' = NoExc
    /\ pc' = "return"
    /\ UNCHANGED << procVars, sinkVars, code, compiled_code, safe_globals, safe_locals,
                    old_handler, old_targets, exc, upc, calls, obs >>

\* return result: the caller has the result record and the frame of the
\* call, with its locals, is gone.
Return ==
    /\ pc = "return"
    /\ pc' = "returned"
    /\ localsReset
    /\ code' = NoCode
    /\ obs' = [NoObs EXCEPT !.earlier = obs.earlier \cup UnitBound]
    /\ UNCHANGED << procVars, result, calls >>

\* ----------------------------------------------------------- deadline
\* Positions at which no execute call is in progress.
Outside == {"idle", "returned", "raised", "host_interrupted", "killed"}

\* The pending alarm elapses: SIGALRM is delivered and the handler in force
\* runs between two statements.  _timeout_handler raises TimeoutError at the
\* statement interrupted: a unit with its own handler swallows it and goes
\* on, otherwise it propagates from there.  Under SIG_DFL the process ends.
Fire ==
    /\ alarm = "pending"
    /\ alarm' = "none"
    /\ IF handler # "_timeout_handler"
       THEN /\ pc' = "killed"
            /\ obs' = [obs EXCEPT !.firedAt = pc]
            /\ UNCHANGED << exc, caught >>
       ELSE IF pc \in Outside
       THEN /\ pc' = "host_interrupted"
            /\ obs' = [obs EXCEPT !.firedAt = pc]
            /\ UNCHANGED << exc, caught >>
       ELSE IF pc = "exec" /\ code.unit.catches
       THEN /\ obs' = [obs EXCEPT !.firedAt = pc, !.swallowed = TRUE]
            /\ UNCHANGED << pc, exc, caught >>
       ELSE /\ obs' = [obs EXCEPT !.firedAt = pc]
            /\ Goto(Route(TimeoutExc, pc))
    /\ UNCHANGED << timeout, handler, sys_stdout, sys_stderr, sinkVars, code,
                    compiled_code, safe_globals, safe_locals, old_handler, old_targets,
                    result, upc, calls >>

\* -------------------------------------------------------- specification
Next ==
    \/ Execute /\ UNCHANGED restVars
    \/ Compile /\ UNCHANGED restVars
    \/ CheckNone /\ UNCHANGED restVars
    \/ CheckErrors /\ UNCHANGED restVars
    \/ CreateSafeGlobals /\ UNCHANGED restVars
    \/ InstallHandler /\ UNCHANGED restVars
    \/ ArmAlarm /\ UNCHANGED restVars
    \/ EnterTry /\ UNCHANGED restVars
    \/ EnterStdout /\ UNCHANGED restVars
    \/ EnterStderr /\ UNCHANGED restVars
    \/ UnitStep /\ UNCHANGED restVars
    \/ UnitSpin /\ UNCHANGED restVars
    \/ UnitReturn /\ UNCHANGED restVars
    \/ ExitStderr /\ UNCHANGED restVars
    \/ ExitStdout /\ UNCHANGED restVars
    \/ GetValue /\ UNCHANGED restVars
    \/ Decide /\ UNCHANGED restVars
    \/ SetSuccess /\ UNCHANGED restVars
    \/ SetOutput /\ UNCHANGED restVars
    \/ ExceptTimeout /\ UNCHANGED restVars
    \/ ExceptOther /\ UNCHANGED restVars
    \/ FinallyAlarm /\ UNCHANGED restVars
    \/ FinallyRestore /\ UNCHANGED restVars
    \/ OuterExcept /\ UNCHANGED restVars
    \/ Return /\ UNCHANGED restVars
    \/ Fire /\ UNCHANGED restVars

Spec == Init /\ [][Next]_allVars

\* ---------------------------------------------------------------- claims
\* A call of execute is at its return statement, or has come back to its
\* caller; the result record is final.
Returned == pc \in {"return", "returned"}

\* C1: whenever execute returns (compile rejection, normal completion,
\* runtime fault, timeout), no alarm is pending; none is pending between
\* invocations either.
C1_NoAlarmPendingOnReturn ==
    (Returned \/ pc = "idle") => alarm = "none"

\* C1 witness: a call that armed the alarm, ran the unit to completion without
\* the deadline elapsing, and returned.
C1_Witness ==
    /\ pc = "return"
    /\ obs.armed
    /\ obs.completed
    /\ obs.firedAt = "never"

\* C2 (as claimed): every result returned has success = true only with
\* error = ''.
C2_SuccessImpliesEmptyError ==
    pc = "return" => (result.success => result.error = << >>)

\* C3 (as claimed): once the deadline has elapsed while the unit was running,
\* the unit's execution is aborted: the unit is no longer executing.
C3_DeadlineAbortsUnit ==
    obs.firedAt = "exec" => pc # "exec"

\* C4 (as claimed): whenever the alarm handler fired during the call, the
\* result returned is the failure with the fixed timeout message naming the
\* configured timeout.
C4_FiredImpliesTimeoutResult ==
    (pc = "return" /\ obs.firedAt # "never")
        => (~result.success /\ result.error = TimedOutAfterMsg(timeout))

C6_RejectedCompilationRunsNothing ==
    (code.compile # "ok" /\ pc \notin {"idle", "returned"})
        => /\ ~obs.built /\ ~obs.installed /\ ~obs.armed /\ ~obs.ran
           /\ handler = obs.handlerBefore
           /\ alarm = "none"
           /\ pc \in {"compile", "check_none", "check_errors", "outer_except",
                      "return"}
           /\ ~result.success

\* C6 witness: a rejected compilation of each of the three shapes has returned
\* (here: an object carrying errors, on the second call of the executor).
C6_Witness ==
    /\ pc = "return"
    /\ code.compile = "errors"
    /\ calls = 2

\* C7 (as claimed): on every compile-time rejection the error text is exactly
\* the violation descriptions joined by newlines.
C7_ErrorIsJoinedViolations ==
    (pc = "return" /\ code.compile # "ok")
        => result.error = JoinNewline(code.errors)

\* C8: no fault escapes execute: the call never ends by raising.
C8_NoFaultEscapes ==
    pc # "raised"

\* C8 witness: the timeout fault was raised outside the inner try statement
\* and the call still returned a result record.
C8_Witness ==
    /\ pc = "return"
    /\ obs.firedAt \in {"enter_try", "finally_alarm"}
    /\ result.error = CompilationErrorMsg(TimeoutExc)

\* C9 (as claimed): after a call in which a fault was raised between
\* installing the handler and entering the inner try, or inside the finally
\* block, the handler in force is the one installed before the call and no
\* alarm is pending.
C9_HandlerRestoredAfterInternalFault ==
    (pc = "return" /\ obs.firedAt \in {"enter_try", "finally_alarm"})
        => (handler = obs.handlerBefore /\ alarm = "none")

\* C10 (as claimed): when the unit raised no fault and the error-output sink
\* is empty, the result is success with the standard-output sink's text.
C10_CleanRunReportsStdout ==
    (pc = "return" /\ obs.completed /\ stderr_capture = << >>)
        => result = [success |-> TRUE, output |-> stdout_capture, error |-> << >>]
C12_UnitFaultReportsKindMessage ==
    (pc = "return" /\ obs.fault # NoExc)
        => (~result.success /\ result.error = KindMessage(obs.fault))

\* Statement k of the current unit has been executed.
Ran(k) == obs.ran /\ (k < upc \/ (k = upc /\ obs.fault # NoExc))

\* Statement k of the current unit references x and no earlier statement of
\* this unit binds it.
RefsUnbound(k) ==
    /\ k \in DOMAIN code.unit.body
    /\ code.unit.body[k] = "ref"
    /\ \A j \in 1..(k - 1) : code.unit.body[j] \notin {"bind", "gbind"}

\* C13: no state leaks between invocations.  When a unit starts, its local
\* scope is empty and its globals mapping binds no name a unit bound, whatever
\* earlier calls bound; a reference to x that this unit has not bound raises
\* the undefined-name fault; and a call whose unit that fault left returns a
\* failure result, which names the fault when no deadline expired.
C13_NoStateLeaksBetweenCalls ==
    /\ (pc = "exec" /\ upc = 1 /\ obs.fault = NoExc)
           => (safe_locals = {} /\ UnitBound = {})
    /\ \A k \in 1..MaxUnitLen :
           (Ran(k) /\ RefsUnbound(k)) => "x" \in obs.nameFaults
    /\ (pc = "return" /\ obs.fault.kind = "NameError")
           => /\ ~result.success
              /\ obs.firedAt = "never" => result.error = KindMessage(obs.fault)

\* C13 witness: an earlier call bound x, the unit of this call referenced x
\* without binding it and the call returns the undefined-name failure.
C13_Witness ==
    /\ pc = "return"
    /\ "x" \in obs.earlier
    /\ obs.fault = NameExc("x")
    /\ result = [success |-> FALSE, output |-> << >>,
                 error |-> KindMessage(NameExc("x"))]

RECURSIVE RunUnit(_, _, _, _, _)
\* What a unit does from statement k on, as a function of the unit, the names
\* defined, and the text written so far: the fault that leaves it (or NoExc)
\* and the text of the two sinks.
RunUnit(unit, k, names, out, err) ==
    IF k > Len(unit.body)
    THEN [fault |-> NoExc, out |-> out, err |-> err]
    ELSE LET op == unit.body[k]
             ex == CASE op = "raise" -> UnitExc
                     [] op \in {"ref", "use"} /\ OpName(op) \notin names
                          -> NameExc(OpName(op))
                     [] OTHER -> NoExc
         IN  IF ex # NoExc /\ ~unit.catches
             THEN [fault |-> ex, out |-> out, err |-> err]
             ELSE RunUnit(unit, k + 1,
                          IF op \in {"bind", "gbind"} THEN names \cup {OpName(op)}
                          ELSE names,
                          IF op = "out" THEN Append(out, "text") ELSE out,
                          IF op = "err" THEN Append(err, "warning") ELSE err)

\* The result of a call as a function of its source and of the outcomes of
\* the imports alone.
ExpectedResult(src, imports) ==
    LET fail(text) == [success |-> FALSE, output |-> << >>, error |-> text]
        r == RunUnit(src.unit, 1,
                     {m \in ALLOWED_MODULES : imports[m] = "ok"}, << >>, << >>)
    IN  CASE src.compile = "none" -> fail(CompilationFailedMsg)
          [] src.compile = "errors" -> fail(JoinNewline(src.errors))
          [] src.compile = "raises" -> fail(CompilationErrorMsg(SyntaxExc(src.errors)))
          [] \E m \in ALLOWED_MODULES : imports[m] = "raises"
               -> fail(CompilationErrorMsg(ImportExc))
          [] r.fault # NoExc -> fail(KindMessage(r.fault))
          [] r.err # << >> -> fail(r.err)
          [] OTHER -> [success |-> TRUE, output |-> r.out, error |-> << >>]

\* C14: execute is deterministic.  With no deadline expiry, the result a call
\* returns is a function of its source and of the module-resolution outcomes
\* alone: it is the same for every call with that source and those outcomes,
\* whatever calls were made before.
C14_ResultDependsOnSourceOnly ==
    (pc = "return" /\ obs.firedAt = "never")
        => result = ExpectedResult(code, obs.imports)

\* C14 witness: the second call on an executor, after a call whose unit bound
\* x, runs a unit that references x and returns.
C14_Witness ==
    /\ pc = "return"
    /\ calls = 2
    /\ obs.firedAt = "never"
    /\ "x" \in obs.earlier
    /\ code.compile = "ok"
    /\ \E k \in DOMAIN code.unit.body : code.unit.body[k] = "ref"

\* _create_safe_globals has returned a mapping in the current call.
GlobalsReturned == safe_globals # NoGlobals

\* C15: a failed module resolution is not fatal.  Whatever subset of the
\* allowed modules fails with ImportError, _create_safe_globals returns a
\* mapping that binds exactly the modules that resolved; a reference to an
\* omitted module raises the undefined-name fault, which never escapes
\* execute, and the call it leaves the unit of returns a failure result.
C15_ImportFailureNotFatal ==
    /\ (obs.built /\ \A m \in ALLOWED_MODULES : obs.imports[m] \in {"ok", "ImportError"})
           => /\ GlobalsReturned
              /\ \A m \in ALLOWED_MODULES :
                     (safe_globals[m] = "module") <=> (obs.imports[m] = "ok")
    /\ \A k \in 1..MaxUnitLen :
           (/\ Ran(k)
            /\ k \in DOMAIN code.unit.body
            /\ code.unit.body[k] = "use"
            /\ obs.imports["math"] = "ImportError")
               => "math" \in obs.nameFaults
    /\ pc # "raised"
    /\ (pc = "return" /\ obs.fault = NameExc("math"))
           => /\ ~result.success
              /\ obs.firedAt = "never"
                     => result.error = KindMessage(NameExc("math"))

\* C15 witness: math failed to import and random resolved; the unit referenced
\* math and the call returns the undefined-name failure.
C15_Witness ==
    /\ pc = "return"
    /\ obs.imports = [m \in ALLOWED_MODULES |->
                         IF m = "math" THEN "ImportError" ELSE "ok"]
    /\ obs.fault = NameExc("math")
    /\ ~result.success

\* C16: the globals mapping handed to a unit holds exactly the safe built-ins
\* table under '__builtins__', '__name__', and one entry per allowed module
\* that resolved; apart from what the unit itself binds, it never holds
\* another name.
C16_GlobalsAreExactlyTheCapabilitySet ==
    GlobalsReturned
        => /\ safe_globals["__builtins__"] = "safe_builtins"
           /\ safe_globals["__name__"] = "__main__"
           /\ {n \in Bound(safe_globals) : safe_globals[n] # "unit_value"}
                  = {"__builtins__", "__name__"}
                    \cup {m \in ALLOWED_MODULES : obs.imports[m] = "ok"}
           /\ (pc = "exec" /\ upc = 1 /\ obs.fault = NoExc)
                  => Bound(safe_globals) \subseteq
                         {"__builtins__", "__name__"} \cup ALLOWED_MODULES

\* C16 witness: a unit is running with one module resolved and one omitted.
C16_Witness ==
    /\ pc = "exec"
    /\ upc = 1
    /\ safe_globals["random"] = "module"
    /\ safe_globals["math"] = "unbound"
\* ------------------------------------- execute called from two threads
\* Two calls of execute in progress at once need two threads: execute never
\* yields.  Each thread runs the statements of execute on its own frame; the
\* SIGALRM handler, the alarm, sys.stdout and sys.stderr belong to the process.

\* What signal.signal raises when it is called off the main thread.
ValueExc == [kind |-> "ValueError", msg |-> <<"signal only works in main thread">>]

\* The statements of the units the threads run: write to standard output,
\* bind x in the local scope, reference x.
ThreadOps == {"out", "bind", "ref"}

ThreadSources ==
    {NoCode}
    \cup {[compile |-> "ok", errors |-> << >>,
           unit |-> [body |-> b, loops |-> FALSE, catches |-> FALSE]] :
              b \in UNION {[1..n -> ThreadOps] : n \in 1..MaxUnitLen}}

\* The text the unit of thread t writes.
TextOf(t) == IF t = "main" THEN "text of main" ELSE "text of worker"

\* stdout_capture = io.StringIO(), stderr_capture = io.StringIO(): the sinks
\* are objects of the call's own frame.
StdoutSink(t) == IF t = "main" THEN "stdout_capture of main" ELSE "stdout_capture of worker"
StderrSink(t) == IF t = "main" THEN "stderr_capture of main" ELSE "stderr_capture of worker"

\* Thread t's frame goes to the position, and with the exception, of r.
FrameGoto(f, r) == [f EXCEPT !.pc = r.pc, !.exc = r.exc, !.caught = r.caught]

\* def execute(self, code): result = {...}
TExecute(t) ==
    /\ frames[t].pc = "idle"
    /\ \E src \in ThreadSources :
           frames' = [frames EXCEPT ![t] = [IdleFrame EXCEPT !.pc = "compile",
                                                             !.code = src]]
    /\ UNCHANGED << vars, msgVars, notifyVars, monVars >>

\* compiled_code = compile_restricted(...) and its two checks; then
\* safe_globals, safe_locals = {} and the two sinks.
TPrepare(t) ==
    /\ frames[t].pc = "compile"
    /\ frames' = [frames EXCEPT ![t] =
           IF frames[t].code.compile = "none"
           THEN [@ EXCEPT !.result.error = CompilationFailedMsg, !.pc = "return"]
           ELSE [@ EXCEPT !.safe_locals = {}, !.stdout_capture = << >>,
                          !.stderr_capture = << >>, !.pc = "install_handler"]]
    /\ UNCHANGED << vars, msgVars, notifyVars, monVars >>

\* Mutant: signal.signal installs the handler from any thread.
SignalAllowed_AnyThread(t) == TRUE

\* signal.signal works in the main thread only; elsewhere it raises ValueError.
SignalAllowed(t) == t = "main"

\* old_handler = signal.signal(signal.SIGALRM, self._timeout_handler)
TInstallHandler(t) ==
    /\ frames[t].pc = "install_handler"
    /\ IF SignalAllowed(t)
       THEN /\ frames' = [frames EXCEPT ![t].old_handler = handler, ![t].pc = "arm"]
            /\ handler' = "_timeout_handler"
       ELSE /\ frames' = [frames EXCEPT ![t] =
                             FrameGoto(@, Route(ValueExc, "install_handler"))]
            /\ UNCHANGED handler
    /\ UNCHANGED << timeout, alarm, sys_stdout, sys_stderr, callVars, msgVars,
                    notifyVars, monVars >>

\* signal.alarm(self.timeout); try:
TArmAlarm(t) ==
    /\ frames[t].pc = "arm"
    /\ alarm' = Armed(timeout)
    /\ frames' = [frames EXCEPT ![t].pc = "enter_stdout"]
    /\ UNCHANGED << timeout, handler, sys_stdout, sys_stderr, callVars, msgVars,
                    notifyVars, monVars >>

\* with redirect_stdout(stdout_capture), ...: __enter__ of the first
TEnterStdout(t) ==
    /\ frames[t].pc = "enter_stdout"
    /\ frames' = [frames EXCEPT ![t].old_targets.stdout = sys_stdout,
                                ![t].pc = "enter_stderr"]
    /\ sys_stdout' = StdoutSink(t)
    /\ UNCHANGED << timeout, handler, alarm, sys_stderr, callVars, msgVars,
                    notifyVars, monVars >>

\* ..., redirect_stderr(stderr_capture): __enter__ of the second
TEnterStderr(t) ==
    /\ frames[t].pc = "enter_stderr"
    /\ frames' = [frames EXCEPT ![t].old_targets.stderr = sys_stderr,
                                ![t].pc = "exec"]
    /\ sys_stderr' = StderrSink(t)
    /\ UNCHANGED << timeout, handler, alarm, sys_stdout, callVars, msgVars,
                    notifyVars, monVars >>

\* The names the unit of thread t can see bound: those of its local scope.
TDefined(t) == {b.name : b \in frames[t].safe_locals}

\* exec(compiled_code, safe_globals, safe_locals): one statement of the unit
\* of thread t.  A write goes to the sink sys.stdout is bound to at that
\* moment, whichever call it belongs to; a binding goes to the local scope
\* of the call's own frame.
TUnitStep(t) ==
    /\ frames[t].pc = "exec"
    /\ frames[t].upc <= Len(frames[t].code.unit.body)
    /\ LET op == frames[t].code.unit.body[frames[t].upc]
           written == [u \in Threads |->
                          IF op = "out" /\ sys_stdout = StdoutSink(u)
                          THEN Append(frames[u].stdout_capture, TextOf(t))
                          ELSE frames[u].stdout_capture]
       IN  frames' = [u \in Threads |->
               IF u # t
               THEN [frames[u] EXCEPT !.stdout_capture = written[u]]
               ELSE IF op = "ref" /\ "x" \notin TDefined(t)
               THEN FrameGoto(frames[t], Route(NameExc("x"), "exec"))
               ELSE [frames[t] EXCEPT
                        !.stdout_capture = written[t],
                        !.safe_locals = IF op = "bind"
                                        THEN @ \cup {[name |-> "x", by |-> t]}
                                        ELSE @,
                        !.upc = @ + 1]]
    /\ UNCHANGED << vars, msgVars, notifyVars, monVars >>

\* exec(...) returns.
TUnitReturn(t) ==
    /\ frames[t].pc = "exec"
    /\ frames[t].upc > Len(frames[t].code.unit.body)
    /\ frames' = [frames EXCEPT ![t].pc = "exit_stderr"]
    /\ UNCHANGED << vars, msgVars, notifyVars, monVars >>

\* __exit__ of redirect_stderr
TExitStderr(t) ==
    /\ frames[t].pc = "exit_stderr"
    /\ sys_stderr' = frames[t].old_targets.stderr
    /\ frames' = [frames EXCEPT ![t].pc = "exit_stdout"]
    /\ UNCHANGED << timeout, handler, alarm, sys_stdout, callVars, msgVars,
                    notifyVars, monVars >>

\* __exit__ of redirect_stdout; an exception propagating reaches the except
\* clauses of the inner try.
TExitStdout(t) ==
    /\ frames[t].pc = "exit_stdout"
    /\ sys_stdout' = frames[t].old_targets.stdout
    /\ frames' = [frames EXCEPT ![t] =
           IF @.exc # NoExc THEN FrameGoto(@, InnerHandler(@.exc))
           ELSE [@ EXCEPT !.pc = "getvalue"]]
    /\ UNCHANGED << timeout, handler, alarm, sys_stderr, callVars, msgVars,
                    notifyVars, monVars >>

\* stdout_value = ...; stderr_value = ...; if stderr_value: ... else: ...
TBuildResult(t) ==
    /\ frames[t].pc = "getvalue"
    /\ LET f == frames[t]
       IN  frames' = [frames EXCEPT ![t] =
               IF f.stderr_capture # << >>
               THEN [f EXCEPT !.result.error = f.stderr_capture,
                              !.pc = "finally_alarm"]
               ELSE [f EXCEPT !.result.success = TRUE,
                              !.result.output = f.stdout_capture,
                              !.pc = "finally_alarm"]]
    /\ UNCHANGED << vars, msgVars, notifyVars, monVars >>

\* except TimeoutError: ... / except Exception as e: ...
TExcept(t) ==
    /\ frames[t].pc \in InInnerExcept
    /\ LET f == frames[t]
       IN  frames' = [frames EXCEPT ![t] =
               [f EXCEPT !.result.error = IF f.pc = "except_timeout"
                                          THEN TimedOutAfterMsg(timeout)
                                          ELSE KindMessage(f.caught),
                         !.pc = "finally_alarm"]]
    /\ UNCHANGED << vars, msgVars, notifyVars, monVars >>

\* finally: signal.alarm(0)
TFinallyAlarm(t) ==
    /\ frames[t].pc = "finally_alarm"
    /\ alarm' = "none"
    /\ frames' = [frames EXCEPT ![t].pc = "finally_restore"]
    /\ UNCHANGED << timeout, handler, sys_stdout, sys_stderr, callVars, msgVars,
                    notifyVars, monVars >>

\* signal.signal(signal.SIGALRM, old_handler); an exception propagating
\* reaches the outer except clause.
TFinallyRestore(t) ==
    /\ frames[t].pc = "finally_restore"
    /\ handler' = frames[t].old_handler
    /\ frames' = [frames EXCEPT ![t] =
           IF @.exc # NoExc THEN FrameGoto(@, OuterHandler(@.exc))
           ELSE [@ EXCEPT !.pc = "return"]]
    /\ UNCHANGED << timeout, alarm, sys_stdout, sys_stderr, callVars, msgVars,
                    notifyVars, monVars >>

\* except Exception as e: result['error'] = f"Compilation error: {str(e)}"
TOuterExcept(t) ==
    /\ frames[t].pc = "outer_except"
    /\ LET f == frames[t]
       IN  frames' = [frames EXCEPT ![t] =
               [f EXCEPT !.result.error = CompilationErrorMsg(f.caught),
                         !.pc = "return"]]
    /\ UNCHANGED << vars, msgVars, notifyVars, monVars >>

\* return result: the frame is gone.
TReturn(t) ==
    /\ frames[t].pc = "return"
    /\ frames' = [frames EXCEPT ![t] = IdleFrame]
    /\ UNCHANGED << vars, msgVars, notifyVars, monVars >>

\* The pending alarm elapses.  Python runs signal handlers in the main
\* thread: _timeout_handler raises TimeoutError at the statement the main
\* thread is at.
TFire ==
    /\ alarm = "pending"
    /\ alarm' = "none"
    /\ frames' = [frames EXCEPT !["main"] =
           IF handler # "_timeout_handler" THEN [@ EXCEPT !.pc = "killed"]
           ELSE IF @.pc \in Outside THEN [@ EXCEPT !.pc = "host_interrupted"]
           ELSE FrameGoto(@, Route(TimeoutExc, @.pc))]
    /\ UNCHANGED << timeout, handler, sys_stdout, sys_stderr, callVars, msgVars,
                    notifyVars, monVars >>

ThreadNext ==
    \/ \E t \in Threads : TExecute(t) /\ UNCHANGED coroutines
    \/ \E t \in Threads : TPrepare(t) /\ UNCHANGED coroutines
    \/ \E t \in Threads : TInstallHandler(t) /\ UNCHANGED coroutines
    \/ \E t \in Threads : TArmAlarm(t) /\ UNCHANGED coroutines
    \/ \E t \in Threads : TEnterStdout(t) /\ UNCHANGED coroutines
    \/ \E t \in Threads : TEnterStderr(t) /\ UNCHANGED coroutines
    \/ \E t \in Threads : TUnitStep(t) /\ UNCHANGED coroutines
    \/ \E t \in Threads : TUnitReturn(t) /\ UNCHANGED coroutines
    \/ \E t \in Threads : TExitStderr(t) /\ UNCHANGED coroutines
    \/ \E t \in Threads : TExitStdout(t) /\ UNCHANGED coroutines
    \/ \E t \in Threads : TBuildResult(t) /\ UNCHANGED coroutines
    \/ \E t \in Threads : TExcept(t) /\ UNCHANGED coroutines
    \/ \E t \in Threads : TFinallyAlarm(t) /\ UNCHANGED coroutines
    \/ \E t \in Threads : TFinallyRestore(t) /\ UNCHANGED coroutines
    \/ \E t \in Threads : TOuterExcept(t) /\ UNCHANGED coroutines
    \/ \E t \in Threads : TReturn(t) /\ UNCHANGED coroutines
    \/ TFire /\ UNCHANGED coroutines

\* Two threads call execute on one executor, in any interleaving.
ThreadSpec == Init /\ [][ThreadNext]_allVars

\* The text written by the unit of another thread's call.
ForeignText(t) == {TextOf(u) : u \in Threads \ {t}}

\* The tokens of a text.
Tokens(text) == {text[i] : i \in DOMAIN text}

\* C17: when several execute calls are in progress at once, each call's local
\* scope and sinks are private to it: no text written by the unit of another
\* call is in its sinks or in its result, and every name bound in its local
\* scope was bound by its own unit.
C17_ConcurrentCallsArePrivate ==
    \A t \in Threads :
        /\ Tokens(frames[t].stdout_capture) \cap ForeignText(t) = {}
        /\ Tokens(frames[t].stderr_capture) \cap ForeignText(t) = {}
        /\ Tokens(frames[t].result.output) \cap ForeignText(t) = {}
        /\ Tokens(frames[t].result.error) \cap ForeignText(t) = {}
        /\ \A b \in frames[t].safe_locals : b.by = t

\* C17 witness: while the unit of the main thread's call is running and has
\* written text and bound x, a call made from the other thread returns.
C17_Witness ==
    /\ frames["main"].pc = "exec"
    /\ frames["main"].stdout_capture # << >>
    /\ frames["main"].safe_locals # {}
    /\ frames["worker"].pc = "return"
    /\ frames["worker"].code.compile = "ok"
    /\ frames["worker"].result.error = CompilationErrorMsg(ValueExc)
\* ------------------------------------------- the bot: handle_message
\* A message text is a string of characters: "tick" is the backtick; the
\* word python and a Python keyword ('=') stand for themselves, 'a' for any
\* other character.
MaxTokens == 5

\* What messages are made of: a fence of three backticks, a backtick, a line
\* break, a blank, the word python, a keyword, another character.
MsgTokens == {"fence", "tick", "\n", " ", "python", "=", "a"}

Fence == << "tick", "tick", "tick" >>

RECURSIVE Expand(_)
\* The characters of a string of tokens.
Expand(ts) ==
    IF ts = << >> THEN << >>
    ELSE (IF Head(ts) = "fence" THEN Fence ELSE << Head(ts) >>) \o Expand(Tail(ts))

\* filters.TEXT & ~filters.COMMAND: the non-empty texts that are no command.
Messages == {Expand(ts) : ts \in UNION {[1..n -> MsgTokens] : n \in 1..MaxTokens}}

\* str.startswith
StartsWith(text, prefix) ==
    Len(text) >= Len(prefix) /\ SubSeq(text, 1, Len(prefix)) = prefix

\* str.endswith
EndsWith(text, suffix) ==
    /\ Len(text) >= Len(suffix)
    /\ SubSeq(text, Len(text) - Len(suffix) + 1, Len(text)) = suffix

RECURSIVE Split(_)
\* str.split('\n'): the lines of a text; one more than its line breaks.
Split(text) ==
    IF \A i \in DOMAIN text : text[i] # "\n" THEN << text >>
    ELSE LET k == CHOOSE i \in DOMAIN text :
                      text[i] = "\n" /\ \A j \in 1..(i - 1) : text[j] # "\n"
         IN  << SubSeq(text, 1, k - 1) >> \o Split(SubSeq(text, k + 1, Len(text)))

RECURSIVE Strip(_)
\* str.strip
Strip(line) ==
    IF line = << >> THEN line
    ELSE IF Head(line) = " " THEN Strip(Tail(line))
    ELSE IF line[Len(line)] = " " THEN Strip(SubSeq(line, 1, Len(line) - 1))
    ELSE line

RECURSIVE JoinLines(_)
\* '\n'.join(lines)
JoinLines(lines) ==
    IF lines = << >> THEN << >>
    ELSE IF Len(lines) = 1 THEN lines[1]
    ELSE lines[1] \o << "\n" >> \o JoinLines(Tail(lines))

\* lines[0].strip() in [<fence>python, <fence>py, <fence>]
IsOpeningLine(line) == Strip(line) \in {Fence \o << "python" >>, Fence}

\* The code of a block of several lines: the first line goes if it is the
\* opening fence, then the last line goes if it is the closing fence.
BlockCode(lines) ==
    LET rest == IF IsOpeningLine(lines[1]) THEN Tail(lines) ELSE lines
        body == IF Strip(rest[Len(rest)]) = Fence
                THEN SubSeq(rest, 1, Len(rest) - 1) ELSE rest
    IN  JoinLines(body)

\* any(keyword in message_text.lower() for keyword in python_keywords)
LooksLikePython(text) == \E i \in DOMAIN text : text[i] = "="

\* What handle_message does with a text: pass a code to _execute_and_reply
\* ("execute"), reply that it does not look like Python ("decline"), or
\* return without a word ("ignore").
Dispatch(text) ==
    IF StartsWith(text, Fence) /\ EndsWith(text, Fence)
    THEN IF Len(Split(text)) > 1
         THEN [do |-> "execute", code |-> BlockCode(Split(text))]
         ELSE [do |-> "ignore", code |-> << >>]
    ELSE IF StartsWith(text, << "tick" >>) /\ EndsWith(text, << "tick" >>)
    THEN [do |-> "execute", code |-> SubSeq(text, 2, Len(text) - 1)]
    ELSE IF LooksLikePython(text)
    THEN [do |-> "execute", code |-> text]
    ELSE [do |-> "decline", code |-> << >>]

\* The Telegram API calls a handler makes each succeed or raise.
ApiOutcomes == [typing : BOOLEAN, reply : BOOLEAN, retry : BOOLEAN]

\* An update with a text that is no command arrives.
ReceiveMessage ==
    /\ message_text = << >>
    /\ \E text \in Messages : message_text' = text
    /\ UNCHANGED << executed, replies, api_failed, handled >>
    /\ UNCHANGED << vars, frames, notifyVars, monVars, coroutines >>

\* async def handle_message(self, update, context), with the call of
\* _execute_and_reply it makes: send_action('typing'), which raises out of
\* the handler when it fails; execute(code); reply_text with the output or
\* the error; and, when that raises, reply_text with the unexpected error.
HandleMessage ==
    /\ message_text # << >>
    /\ ~handled
    /\ handled' = TRUE
    /\ \E api \in ApiOutcomes :
        LET d == Dispatch(message_text)
        IN  CASE d.do = "ignore" ->
                   /\ executed' = << >>
                   /\ replies' = 0
                   /\ api_failed' = FALSE
              [] d.do = "decline" ->
                   /\ executed' = << >>
                   /\ replies' = 1
                   /\ api_failed' = ~api.reply
              [] d.do = "execute" /\ ~api.typing ->
                   /\ executed' = << >>
                   /\ replies' = 0
                   /\ api_failed' = TRUE
              [] OTHER ->
                   /\ executed' = << d.code >>
                   /\ replies' = IF api.reply THEN 1 ELSE 2
                   /\ api_failed' = ~api.reply
    /\ UNCHANGED message_text
    /\ UNCHANGED << vars, frames, notifyVars, monVars, coroutines >>

\* The handler has returned; the bot waits for the next update.
MessageDone ==
    /\ handled
    /\ message_text' = << >>
    /\ executed' = << >>
    /\ replies' = 0
    /\ api_failed' = FALSE
    /\ handled' = FALSE
    /\ UNCHANGED << vars, frames, notifyVars, monVars, coroutines >>

MessageNext ==
    \/ ReceiveMessage
    \/ HandleMessage
    \/ MessageDone

\* The bot handles text messages, one after the other.
MessageSpec == Init /\ [][MessageNext]_allVars

\* The text is a code block: something between an opening and a closing
\* fence of three backticks.
IsBlock(text) ==
    StartsWith(text, Fence) /\ EndsWith(text, Fence) /\ Len(text) > 2 * Len(Fence)

\* The text is an inline snippet: something between two backticks, each of
\* them a backtick on its own.
IsSnippet(text) ==
    /\ StartsWith(text, << "tick" >>) /\ EndsWith(text, << "tick" >>)
    /\ Len(text) > 2
    /\ ~StartsWith(text, << "tick", "tick" >>)
    /\ ~EndsWith(text, << "tick", "tick" >>)

\* The text starts and ends with a backtick delimiter.
Delimited(text) == IsBlock(text) \/ IsSnippet(text)

\* C18 (as claimed): every text message that starts and ends with a backtick
\* delimiter, block of one line or of several, causes exactly one call of
\* the code executor and a reply to the sender (when no Telegram call fails).
C18_DelimitedMessageExecutedOnce ==
    (handled /\ Delimited(message_text) /\ ~api_failed)
        => (Len(executed) = 1 /\ replies = 1)

\* ------------------------------------- the bot: buy notifications
MaxChats == 2

Chats == 1..MaxChats

\* self.monitoring_task.cancel(): CancelledError is raised in the task at the
\* send it awaits; it is no Exception, so the invocation of
\* send_buy_notification in progress ends there.
Cancelled ==
    /\ sending' = "idle"
    /\ todo' = {}
    /\ chat_id' = {}
    /\ nobs' = IF sending = "await_send"
               THEN [nobs EXCEPT !.cancelled = TRUE] ELSE nobs

\* _auto_start_monitoring: the task is created when the bot launches.
AutoStartMonitoring ==
    /\ monitoring_task = "none"
    /\ monitoring_task' = "running"
    /\ UNCHANGED << notification_chat_ids, sending, todo, chat_id, nobs >>
    /\ UNCHANGED << vars, frames, msgVars, monVars, coroutines >>

\* start_roar_command: if self.monitoring_task: cancel(); create_task(...)
StartRoarCommand ==
    /\ monitoring_task' = "running"
    /\ IF monitoring_task = "none"
       THEN UNCHANGED << sending, todo, chat_id, nobs >>
       ELSE Cancelled
    /\ UNCHANGED notification_chat_ids
    /\ UNCHANGED << vars, frames, msgVars, monVars, coroutines >>

\* stop_roar_command: stop_monitoring(); if self.monitoring_task: cancel()
StopRoarCommand ==
    /\ monitoring_task # "none"
    /\ monitoring_task' = "cancelled"
    /\ Cancelled
    /\ UNCHANGED notification_chat_ids
    /\ UNCHANGED << vars, frames, msgVars, monVars, coroutines >>

\* subscribe_command: self.notification_chat_ids.add(chat_id)
SubscribeCommand ==
    /\ \E c \in Chats :
        /\ notification_chat_ids' = notification_chat_ids \cup {c}
        /\ nobs' = [nobs EXCEPT !.unsubscribed = @ \ {c},
                                 !.dropped = @ \ {c}]
    /\ UNCHANGED << monitoring_task, sending, todo, chat_id >>
    /\ UNCHANGED << vars, frames, msgVars, monVars, coroutines >>

\* unsubscribe_command: self.notification_chat_ids.discard(chat_id)
UnsubscribeCommand ==
    /\ \E c \in Chats :
        /\ notification_chat_ids' = notification_chat_ids \ {c}
        /\ nobs' = [nobs EXCEPT !.unsubscribed = @ \cup {c}]
    /\ UNCHANGED << monitoring_task, sending, todo, chat_id >>
    /\ UNCHANGED << vars, frames, msgVars, monVars, coroutines >>

\* The next iteration of for chat_id in ...: over the chats rest, in the
\* history h: the send to one of them is called and awaited, or the loop and
\* the invocation end.
NextSend(rest, h) ==
    IF rest = {}
    THEN /\ sending' = "idle"
         /\ todo' = {}
         /\ chat_id' = {}
         /\ nobs' = [h EXCEPT !.completed = TRUE]
    ELSE \E c \in rest :
         /\ sending' = "await_send"
         /\ todo' = rest \ {c}
         /\ chat_id' = {c}
         /\ nobs' = [h EXCEPT !.attempts = Append(@, c),
                              !.afterUnsubscribe =
                                  IF c \in h.unsubscribed THEN @ \cup {c} ELSE @,
                              !.afterDrop =
                                  IF c \in h.dropped THEN @ \cup {c} ELSE @]

\* async def send_buy_notification(...), called by the monitoring task on a
\* new buy: return if nobody is subscribed; build the message and the image;
\* for chat_id in self.notification_chat_ids.copy(): ... up to the first await.
SendBuyNotification ==
    /\ monitoring_task = "running"
    /\ sending = "idle"
    /\ IF notification_chat_ids = {}
       THEN /\ nobs' = [nobs EXCEPT !.start = {}, !.attempts = << >>,
                                    !.failed = {}, !.cancelled = FALSE,
                                    !.completed = TRUE]
            /\ UNCHANGED << sending, todo, chat_id >>
       ELSE NextSend(notification_chat_ids,
                     [nobs EXCEPT !.start = notification_chat_ids,
                                  !.attempts = << >>, !.failed = {},
                                  !.cancelled = FALSE, !.completed = FALSE])
    /\ UNCHANGED << notification_chat_ids, monitoring_task >>
    /\ UNCHANGED << vars, frames, msgVars, monVars, coroutines >>

\* Mutant: a failed send is not caught and ends the loop.
AfterFailedSend_Abort(rest) == {}

\* except Exception as e: log, discard(chat_id); the loop goes on with the
\* chats that are left.
AfterFailedSend(rest) == rest

\* The subscribers after a failed send, were the except clause only to log.
Discarded_Kept(ids, chat) == ids

\* self.notification_chat_ids.discard(chat_id) in the except clause of the
\* send loop; chat is the loop variable.
Discarded(ids, chat) == ids \ chat

\* await send_photo(...) / send_message(...) returns or raises; the loop
\* goes on to its next await or to its end.
SendReturns ==
    /\ sending = "await_send"
    /\ \E ok \in BOOLEAN :
        IF ok
        THEN /\ NextSend(todo, nobs)
             /\ UNCHANGED notification_chat_ids
        ELSE /\ notification_chat_ids' = Discarded(notification_chat_ids, chat_id)
             /\ NextSend(AfterFailedSend(todo),
                         [nobs EXCEPT !.failed = @ \cup chat_id,
                                      !.dropped = @ \cup chat_id])
    /\ UNCHANGED monitoring_task
    /\ UNCHANGED << vars, frames, msgVars, monVars, coroutines >>

NotifyNext ==
    \/ AutoStartMonitoring
    \/ StartRoarCommand
    \/ StopRoarCommand
    \/ SubscribeCommand
    \/ UnsubscribeCommand
    \/ SendBuyNotification
    \/ SendReturns

\* The bot's subscribers, its monitoring task and the notifications it sends.
NotifySpec == Init /\ [][NotifyNext]_allVars

\* The chats the current (or last) invocation has attempted a send to.
Attempted == {nobs.attempts[i] : i \in DOMAIN nobs.attempts}

\* The number of sends the invocation has attempted to chat c.
Attempts(c) == Cardinality({i \in DOMAIN nobs.attempts : nobs.attempts[i] = c})

\* C19 (as claimed): once a chat's /unsubscribe has been handled, it is sent
\* no buy notification until it subscribes again, also when a send loop is
\* in progress at the time.
C19_NoNotificationAfterUnsubscribe == nobs.afterUnsubscribe = {}

\* C20 (as claimed): every invocation of send_buy_notification that has
\* ended has attempted exactly one send to each chat subscribed when it
\* started.
C20_EveryInvocationAttemptsEachSubscriberOnce ==
    (sending = "idle" /\ (nobs.completed \/ nobs.cancelled))
        => \A c \in nobs.start : Attempts(c) = 1

\* C20 (amended): every invocation of send_buy_notification that the
\* cancellation of the monitoring task does not cut short has attempted, when
\* it ends, exactly one send to each chat subscribed when it started, whether
\* earlier sends failed or not; and no invocation ever attempts a second send
\* to a chat or a send to a chat not subscribed when it started.
C20_UncancelledInvocationAttemptsEachSubscriberOnce ==
    /\ \A c \in Chats : Attempts(c) <= 1
    /\ Attempted \subseteq nobs.start
    /\ sending = "await_send" => Attempted \cup todo = nobs.start
    /\ (sending = "idle" /\ nobs.completed) => Attempted = nobs.start

\* C20 witness: an invocation has run to its end although its first send
\* failed, and has gone on to attempt the other subscribers.
C20_Witness ==
    /\ sending = "idle"
    /\ nobs.completed
    /\ Len(nobs.attempts) >= 2
    /\ nobs.attempts[1] \in nobs.failed
    /\ Attempted = nobs.start

\* A step changes the subscriber set as a failed send does: the chat of the
\* send awaited is removed and recorded as failed.
ByFailedSend ==
    /\ sending = "await_send"
    /\ notification_chat_ids' = notification_chat_ids \ chat_id
    /\ nobs'.failed = nobs.failed \cup chat_id

\* A step changes the subscriber set as /subscribe or /unsubscribe of one
\* chat does, and touches neither the send loop nor the task.
ByCommand ==
    /\ \E c \in Chats :
          \/ notification_chat_ids' = notification_chat_ids \cup {c}
          \/ notification_chat_ids' = notification_chat_ids \ {c}
    /\ UNCHANGED << monitoring_task, sending, todo, chat_id >>

\* C29: a chat whose send fails is removed from the subscriber set in that
\* invocation, stays out of it and is attempted no send until it subscribes
\* again; the set is otherwise changed only by /subscribe, which adds one
\* chat, and /unsubscribe, which removes one, and doing either twice gives
\* what doing it once gives.
C29_FailedChatRemovedUntilResubscribed ==
    /\ [](nobs.dropped \cap notification_chat_ids = {})
    /\ [](nobs.afterDrop = {})
    /\ [](\A c \in Chats :
            LET ids == notification_chat_ids
            IN  /\ (ids \cup {c}) \cup {c} = ids \cup {c}
                /\ (ids \ {c}) \ {c} = ids \ {c})
    /\ [][notification_chat_ids' # notification_chat_ids
            => ByFailedSend \/ ByCommand]_allVars

\* A chat a failed send removed is still out, and a later invocation has run
\* to its end, with no failure, for the subscribers left.
C29_Witness ==
    /\ nobs.dropped # {}
    /\ nobs.failed = {}
    /\ nobs.completed
    /\ nobs.attempts # << >>
    /\ sending = "idle"

\* ====================================================== the monitor
\* DexScreenerMonitor and the handlers of the bot that own it.  The bot runs
\* on one event loop: a handler or the monitoring task runs alone from one
\* await that suspends to the next.  fetch_token_data awaits nothing (it calls
\* requests.get), so a poll runs alone up to the await of the callback.

\* What the monitor's actions leave alone.
monRest == << vars, frames, msgVars, notification_chat_ids, sending, todo,
              chat_id, nobs, coroutines >>

\* initialize: the baseline of a monitor whose first fetch returned f.
Initialized(m, f) ==
    IF f.kind = "data"
    THEN [m EXCEPT !.current_data = f.data,
                   !.last_h24_buys = f.data.h24,
                   !.last_m5_buys = f.data.m5]
    ELSE m

\* initialize, were it to return True whatever its fetch did.
InitializeOk_Always(f) == TRUE

\* initialize returns True exactly when its fetch returned data.
InitializeOk(f) == f.kind = "data"

\* check_for_new_buys, "update tracking counters": placed where a poll that
\* detected nothing would skip it.
Updated_OnlyOnDetection(m, d) ==
    IF d.m5 - m.last_m5_buys > 0
    THEN [m EXCEPT !.last_m5_buys = d.m5, !.last_h24_buys = d.h24,
                   !.current_data = d]
    ELSE m

\* check_for_new_buys, "update tracking counters".
Updated(m, d) ==
    [m EXCEPT !.last_m5_buys = d.m5, !.last_h24_buys = d.h24,
              !.current_data = d]

\* check_for_new_buys, were it to compare with new_m5_buys != 0.
Detects_AnyChange(m, d) == d.m5 - m.last_m5_buys # 0

\* check_for_new_buys: new_m5_buys > 0.
Detects(m, d) == d.m5 - m.last_m5_buys > 0

\* check_for_new_buys reaches the await of the notification callback: the
\* fetch returned data, the count rose, and computing the arguments of the
\* callback raised nothing.
Invokes(m, f) == f.kind = "data" /\ Detects(m, f.data) /\ f.data.numeric

\* An exception reaches the except clause of check_for_new_buys before the
\* callback is called: raised by the fetch, or by the computation of the
\* callback's arguments from fields that are not numbers.
PollRaises(m, f) ==
    \/ f.kind = "raises"
    \/ f.kind = "data" /\ Detects(m, f.data) /\ ~f.data.numeric

\* The monitor after a poll, were the poll to store what the fetch returned
\* before looking at it.
AfterFetch_StoresFirst(m, f) ==
    IF f.kind = "data" /\ Detects(m, f.data) THEN m
    ELSE Updated(m, f.data)

\* The monitor after the part of a poll that runs before any await suspends:
\* a fetch of nothing returns, an exception skips the update, a detection
\* leaves the update for after the callback.
AfterFetch(m, f) ==
    IF f.kind = "data" /\ ~Detects(m, f.data) THEN Updated(m, f.data) ELSE m

\* The history of a poll of monitor m whose fetch does f.
PollRecord(m, f) ==
    [fetch |-> f.kind, data |-> f.data, before |-> m,
     invoked |-> IF Invokes(m, f) THEN 1 ELSE 0,
     raised |-> PollRaises(m, f), done |-> ~Invokes(m, f)]

\* check_for_new_buys, by the monitoring task, on monitor m with fetch f: up
\* to its return, or to the await of the callback.  h is the history so far.
CheckForNewBuys(h, m, f) ==
    /\ uniswap_monitor' = AfterFetch(m, f)
    /\ polled' = IF Invokes(m, f) THEN f.data ELSE NoData
    /\ mpc' = IF Invokes(m, f) THEN "callback" ELSE "sleep"
    /\ mobs' = [h EXCEPT !.prev = [detected |-> h.poll.invoked = 1,
                                   m5 |-> h.poll.data.m5],
                         !.poll = PollRecord(m, f),
                         !.polledYet = TRUE,
                         !.afterStop = @ \/ h.stopped,
                         !.tick = ~@]

\* Task.cancel() in start_roar_command: the tasks left able to run, the
\* previous task left running.
LiveAfterCancel_NotCancelled(task, n) == n

\* Task.cancel() in start_roar_command and stop_roar_command: a task that is
\* running gets CancelledError at the await it is suspended in, which no
\* except clause of the monitor or of the bot catches.
LiveAfterCancel(task, n) == IF task = "running" THEN n - 1 ELSE n

\* _auto_start_monitoring, called once by post_init before any update is
\* handled: a new monitor, and a task only if initialize returns True.
auto_start_monitoring ==
    /\ ~uniswap_monitor.exists
    /\ monitoring_task = "none"
    /\ \E f \in FetchOutcomes :
        /\ uniswap_monitor' = Initialized(NewMonitor, f)
        /\ IF InitializeOk(f)
           THEN /\ monitoring_task' = "running"
                /\ mpc' = "created"
                /\ live' = live + 1
           ELSE UNCHANGED << monitoring_task, mpc, live >>
    /\ UNCHANGED << polled, mobs, monRest >>

\* start_roar_command: a new monitor replaces the one in place, the task in
\* place is cancelled, a new task is created for the new monitor.
start_roar_command ==
    /\ uniswap_monitor.exists
    /\ uniswap_monitor' = NewMonitor
    /\ live' = LiveAfterCancel(monitoring_task, live) + 1
    /\ monitoring_task' = "running"
    /\ mpc' = "created"
    /\ polled' = NoData
    /\ mobs' = [NoMonitoring EXCEPT !.tick = mobs.tick,
                                    !.replaced = monitoring_task = "running"]
    /\ UNCHANGED monRest

\* stop_roar_command with a monitor in place, were it to clear the flag and
\* leave the task to notice it.
stop_roar_command_FlagOnly ==
    /\ uniswap_monitor.exists
    /\ uniswap_monitor' = [uniswap_monitor EXCEPT !.monitoring = FALSE]
    /\ mobs' = [mobs EXCEPT !.stopped = TRUE, !.reported = "nothing"]
    /\ UNCHANGED << live, monitoring_task, mpc, polled, monRest >>

\* stop_roar_command with a monitor in place: stop_monitoring clears the
\* flag, the task is cancelled.
stop_roar_command ==
    /\ uniswap_monitor.exists
    /\ uniswap_monitor' = [uniswap_monitor EXCEPT !.monitoring = FALSE]
    /\ live' = LiveAfterCancel(monitoring_task, live)
    /\ monitoring_task' = IF monitoring_task = "running" THEN "cancelled"
                          ELSE monitoring_task
    /\ mpc' = "off"
    /\ polled' = NoData
    /\ mobs' = [mobs EXCEPT !.stopped = TRUE, !.reported = "nothing"]
    /\ UNCHANGED monRest

\* get_current_stats: the 'status' entry of the stats it returns.
Status(m) == IF m.monitoring THEN "monitoring" ELSE "stopped"

\* roar_status_command with a monitor in place: get_current_stats fetches
\* when the monitor holds no data, returns {} when there is none still or
\* when the fetch raises, and the handler reports stats.get('status',
\* 'unknown').
roar_status_command ==
    /\ uniswap_monitor.exists
    /\ \E f \in FetchOutcomes :
        LET m == IF uniswap_monitor.current_data = NoData /\ f.kind = "data"
                 THEN [uniswap_monitor EXCEPT !.current_data = f.data]
                 ELSE uniswap_monitor
        IN  /\ uniswap_monitor' = m
            /\ mobs' = [mobs EXCEPT !.reported =
                           IF ~mobs.stopped THEN "nothing"
                           ELSE IF m.current_data = NoData THEN "unknown"
                           ELSE Status(m)]
    /\ UNCHANGED << monitoring_task, mpc, polled, live, monRest >>

\* start_monitoring, the first run of the task: initialize, and on failure
\* return; else set the flag and enter the loop, whose first poll starts at
\* once.
start_monitoring ==
    /\ monitoring_task = "running"
    /\ mpc = "created"
    /\ \E f \in FetchOutcomes :
        IF ~InitializeOk(f)
        THEN /\ monitoring_task' = "done"
             /\ mpc' = "off"
             /\ live' = live - 1
             /\ mobs' = [mobs EXCEPT !.init = f.kind]
             /\ UNCHANGED << uniswap_monitor, polled >>
        ELSE /\ \E g \in FetchOutcomes :
                    CheckForNewBuys([mobs EXCEPT !.init = f.kind],
                                    [Initialized(uniswap_monitor, f)
                                        EXCEPT !.monitoring = TRUE], g)
             /\ UNCHANGED << monitoring_task, live >>
    /\ UNCHANGED monRest

\* The loop of start_monitoring after asyncio.sleep(30): the next poll while
\* the flag is set, else the coroutine returns.
next_poll ==
    /\ monitoring_task = "running"
    /\ mpc = "sleep"
    /\ IF uniswap_monitor.monitoring
       THEN /\ \E g \in FetchOutcomes :
                    CheckForNewBuys(mobs, uniswap_monitor, g)
            /\ UNCHANGED << monitoring_task, live >>
       ELSE /\ monitoring_task' = "done"
            /\ mpc' = "off"
            /\ live' = live - 1
            /\ UNCHANGED << uniswap_monitor, polled, mobs >>
    /\ UNCHANGED monRest

\* The awaited notification callback returns: check_for_new_buys updates the
\* counters from the snapshot it fetched and returns, the loop sleeps.
callback_returns ==
    /\ monitoring_task = "running"
    /\ mpc = "callback"
    /\ uniswap_monitor' = Updated(uniswap_monitor, polled)
    /\ polled' = NoData
    /\ mpc' = "sleep"
    /\ mobs' = [mobs EXCEPT !.poll.done = TRUE]
    /\ UNCHANGED << monitoring_task, live, monRest >>

\* The awaited notification callback raises an Exception, were no except
\* clause to catch it: the coroutine ends.
callback_raises_EndsLoop ==
    /\ monitoring_task = "running"
    /\ mpc = "callback"
    /\ polled' = NoData
    /\ mpc' = "off"
    /\ monitoring_task' = "done"
    /\ live' = live - 1
    /\ mobs' = [mobs EXCEPT !.poll.done = TRUE, !.poll.raised = TRUE]
    /\ UNCHANGED << uniswap_monitor, monRest >>

\* The awaited notification callback raises an Exception: the except clause
\* of check_for_new_buys logs it, the counters are not updated, the loop
\* sleeps.
callback_raises ==
    /\ monitoring_task = "running"
    /\ mpc = "callback"
    /\ polled' = NoData
    /\ mpc' = "sleep"
    /\ mobs' = [mobs EXCEPT !.poll.done = TRUE, !.poll.raised = TRUE]
    /\ UNCHANGED << uniswap_monitor, monitoring_task, live, monRest >>

MonitorNext ==
    \/ auto_start_monitoring
    \/ start_roar_command
    \/ stop_roar_command
    \/ roar_status_command
    \/ start_monitoring
    \/ next_poll
    \/ callback_returns
    \/ callback_raises

MonitorSpec == Init /\ [][MonitorNext]_allVars

Polled == mobs.poll.fetch # "no poll"

\* The last poll fetched data whose 5-minute buy count is greater than the
\* count the monitor had recorded.
FetchedIncrease ==
    /\ mobs.poll.fetch = "data"
    /\ mobs.poll.data.m5 > mobs.poll.before.last_m5_buys

C23_IncreaseNotifiedAtMostOnce ==
    (/\ mobs.prev.detected
     /\ mobs.poll.fetch = "data"
     /\ mobs.poll.data.m5 = mobs.prev.m5) => mobs.poll.invoked = 0

\* ------------------------------------------------------------------
\* The last poll has returned, its fetch returned data, and no exception was
\* raised in it.
PollSucceeded ==
    /\ mobs.poll.fetch = "data"
    /\ mobs.poll.done
    /\ ~mobs.poll.raised

\* C24: after every poll whose fetch succeeded and that raised no exception,
\* last_m5_buys and last_h24_buys are the counts of the fetched snapshot and
\* current_data is that snapshot.
C24_CountersFollowSuccessfulPoll ==
    PollSucceeded =>
        /\ uniswap_monitor.last_m5_buys = mobs.poll.data.m5
        /\ uniswap_monitor.last_h24_buys = mobs.poll.data.h24
        /\ uniswap_monitor.current_data = mobs.poll.data

\* A poll succeeded whose snapshot differs from what the monitor held, after
\* a callback that returned.
C24_Witness ==
    /\ PollSucceeded
    /\ mobs.poll.data # mobs.poll.before.current_data
    /\ mobs.poll.data.m5 # mobs.poll.before.last_m5_buys
    /\ mobs.poll.invoked = 1

\* ------------------------------------------------------------------
\* A step is a poll whose fetch failed: the request or the decoding failed,
\* the data had no pairs, or the fetch raised.
FailedPoll ==
    /\ mobs'.tick # mobs.tick
    /\ mobs'.poll.fetch \in {"nothing", "raises"}

\* C25: a poll whose fetch fails or returns no pairs leaves last_m5_buys,
\* last_h24_buys, current_data and the monitoring flag as they were when the
\* poll started, and calls no callback.
C25_FailedPollChangesNothing ==
    [][FailedPoll =>
        /\ uniswap_monitor' = mobs'.poll.before
        /\ mobs'.poll.invoked = 0
        /\ mpc' = "sleep"]_allVars

\* A poll failed on a monitor that had recorded a count and a snapshot.
C25_Witness ==
    /\ mobs.poll.fetch \in {"nothing", "raises"}
    /\ mobs.poll.before.last_m5_buys > 0
    /\ mobs.poll.before.current_data # NoData
    /\ mobs.prev.detected

\* ------------------------------------------------------------------
\* C27: if the initialization in start_monitoring fails (its fetch returns
\* nothing or raises), start_monitoring returns: the flag stays clear, the
\* monitor never polls and never calls the callback, and its task is over.
C27_FailedInitializationNeverPolls ==
    mobs.init \in {"nothing", "raises"} =>
        /\ ~uniswap_monitor.monitoring
        /\ ~mobs.polledYet
        /\ mobs.poll = NoPoll
        /\ mpc = "off"
        /\ monitoring_task = "done"
        /\ live = 0

\* start_monitoring failed to initialize a monitor that /start_roar created.
C27_Witness ==
    /\ mobs.init \in {"nothing", "raises"}
    /\ uniswap_monitor.exists
    /\ monitoring_task = "done"

\* ------------------------------------------------------------------
\* C28: at most one monitoring task is able to poll and notify at any time,
\* and it is the task self.monitoring_task refers to: a task replaced by
\* /start_roar has been cancelled.
C28_AtMostOneMonitoringTask ==
    /\ live <= 1
    /\ live = 1 <=> monitoring_task = "running"
    /\ mpc # "off" => monitoring_task = "running"

\* /start_roar replaced a running task, and the new task has polled.
C28_Witness ==
    /\ mobs.replaced
    /\ mobs.polledYet
    /\ live = 1

\* ------------------------------------------------------------------
\* The event loop runs a task that is ready: a task that was created gets
\* its first run, asyncio.sleep(30) ends, and the awaited callback ends, by
\* returning or by raising (its sends complete or fail).  No handler has to
\* run.
MonitorFairSpec ==
    /\ Init
    /\ [][MonitorNext]_allVars
    /\ WF_allVars(start_monitoring)
    /\ WF_allVars(next_poll)
    /\ WF_allVars(callback_returns \/ callback_raises)

\* The task is in the loop of start_monitoring: in a poll, or asleep after
\* one.
InLoop == monitoring_task = "running" /\ mpc \in {"callback", "sleep"}

\* C26: while the flag is set and the task has not been cancelled the loop
\* goes on: after any poll, whatever its fetch and its callback did, another
\* poll follows unless the task is cancelled (by /stop_roar, or by
\* /start_roar, which creates the next task); the coroutine returns only
\* when initialize failed; and once /stop_roar has cleared the flag the loop
\* starts no poll and is over.
C26_LoopKeepsPollingUntilStopped ==
    /\ \A b \in BOOLEAN :
          (InLoop /\ mobs.tick = b)
              ~> (mobs.tick # b \/ monitoring_task = "cancelled" \/ mpc = "created")
    /\ [](monitoring_task = "done" => mobs.init \in {"nothing", "raises"})
    /\ [](InLoop => uniswap_monitor.monitoring)
    /\ []((uniswap_monitor.exists /\ mobs.stopped) =>
              ~InLoop /\ ~mobs.afterStop)

\* The loop is asleep after a second poll in a row whose callback raised.
C26_Witness ==
    /\ InLoop
    /\ mpc = "sleep"
    /\ mobs.prev.detected
    /\ mobs.poll.raised
    /\ mobs.poll.invoked = 1

\* ------------------------------------------------------------------
\* C30 (as claimed): in every state in which the unit is executing, an alarm
\* for the configured timeout is pending or has already fired in this call,
\* the timeout handler is installed, and both streams are redirected to the
\* call's sinks.
C30_UnitRunsOnlyUnderDeadline ==
    pc = "exec" =>
        /\ alarm = "pending" \/ obs.firedAt # "never"
        /\ handler = "_timeout_handler"
        /\ sys_stdout = "stdout_capture"
        /\ sys_stderr = "stderr_capture"

\* ================================================= the bot process
\* The handlers of the bot and the monitoring task are coroutines of one
\* event loop, on the main thread.  A coroutine keeps the thread until it
\* awaits.  _execute_and_reply awaits the typing action, calls execute and
\* awaits the reply; execute is a plain function, called without await.

\* The event loop would run another coroutine while a handler is inside
\* execute, were execute to yield to it.
CanSwitch_WhileExecuting == TRUE

\* The event loop can run a coroutine: none is inside the call of execute,
\* which has no await from its first statement to its return.
CanSwitch == \A h \in Handlers : coroutines[h] # "in_execute"

\* What a step of a handler leaves alone.
handlerRest == << vars, frames, msgVars, notifyVars, monVars >>

\* _execute_and_reply is entered for an update (from run_command or
\* handle_message) and awaits send_action('typing').
execute_and_reply(h) ==
    /\ CanSwitch
    /\ coroutines[h] = "idle"
    /\ coroutines' = [coroutines EXCEPT ![h] = "await_typing"]
    /\ UNCHANGED handlerRest

\* The typing action was sent: the handler calls self.code_executor.execute.
\* Or it raised, outside the try of _execute_and_reply: the handler ends.
typing_sent(h) ==
    /\ CanSwitch
    /\ coroutines[h] = "await_typing"
    /\ \/ /\ TExecute("main")
          /\ coroutines' = [coroutines EXCEPT ![h] = "in_execute"]
       \/ /\ coroutines' = [coroutines EXCEPT ![h] = "idle"]
          /\ UNCHANGED handlerRest

\* execute returns its result to the handler, which formats it and awaits
\* reply_text.
execute_returns(h) ==
    /\ coroutines[h] = "in_execute"
    /\ TReturn("main")
    /\ coroutines' = [coroutines EXCEPT ![h] = "await_reply"]

\* reply_text has returned, or raised and the reply of the except clause has
\* ended: the handler is over.
reply_sent(h) ==
    /\ CanSwitch
    /\ coroutines[h] = "await_reply"
    /\ coroutines' = [coroutines EXCEPT ![h] = "idle"]
    /\ UNCHANGED handlerRest

\* self.code_executor = CodeExecutor(): the bot's executor has the default
\* timeout.
BotInit == Init /\ timeout = DefaultTimeout

\* A snapshot with n buys and every field a number.
Quote(n) == [pairs |-> TRUE, m5 |-> n, h24 |-> n, numeric |-> TRUE]

\* The market of this specification: a fetch returns nothing, or a snapshot
\* with no buy, or one with the most buys, and never raises.  What the
\* monitor does with other data is MonitorSpec's matter.
BotMarket ==
    /\ uniswap_monitor.current_data \in {NoData, Quote(0), Quote(MaxBuys)}
    /\ mobs.poll.data \in {NoData, Quote(0), Quote(MaxBuys)}
    /\ mobs.poll.fetch # "raises"
    /\ mobs.init # "raises"

BotNext ==
    \/ \E h \in Handlers : execute_and_reply(h)
    \/ \E h \in Handlers : typing_sent(h)
    \/ TPrepare("main") /\ UNCHANGED coroutines
    \/ TInstallHandler("main") /\ UNCHANGED coroutines
    \/ TArmAlarm("main") /\ UNCHANGED coroutines
    \/ TEnterStdout("main") /\ UNCHANGED coroutines
    \/ TEnterStderr("main") /\ UNCHANGED coroutines
    \/ TUnitStep("main") /\ UNCHANGED coroutines
    \/ TUnitReturn("main") /\ UNCHANGED coroutines
    \/ TExitStderr("main") /\ UNCHANGED coroutines
    \/ TExitStdout("main") /\ UNCHANGED coroutines
    \/ TBuildResult("main") /\ UNCHANGED coroutines
    \/ TExcept("main") /\ UNCHANGED coroutines
    \/ TFinallyAlarm("main") /\ UNCHANGED coroutines
    \/ TFinallyRestore("main") /\ UNCHANGED coroutines
    \/ TOuterExcept("main") /\ UNCHANGED coroutines
    \/ TFire /\ UNCHANGED coroutines
    \/ \E h \in Handlers : execute_returns(h)
    \/ \E h \in Handlers : reply_sent(h)
    \/ CanSwitch /\ auto_start_monitoring /\ BotMarket'
    \/ CanSwitch /\ start_monitoring /\ BotMarket'
    \/ CanSwitch /\ next_poll /\ BotMarket'
    \/ CanSwitch /\ callback_returns
    \/ CanSwitch /\ callback_raises

\* The bot process: the handlers that execute code and the monitoring task.
BotSpec == BotInit /\ [][BotNext]_allVars

\* ------------------------------------------------------------------
\* Handler h is inside its call of execute.
Executing(h) == coroutines[h] = "in_execute"

\* C31: in the bot process executions never overlap: at most one handler is
\* inside execute, a unit runs only inside such a call, and from the call to
\* its return no other handler takes a step, and neither the monitor (its
\* task, its polls, its callback) nor the notifications do.
C31_ExecutionsNeverOverlap ==
    /\ [](Cardinality({h \in Handlers : Executing(h)}) <= 1)
    /\ [](frames["main"].pc # "idle" => \E h \in Handlers : Executing(h))
    /\ [][\A h \in Handlers :
            (Executing(h) /\ Executing(h)') =>
                /\ UNCHANGED << monVars, notifyVars, msgVars >>
                /\ \A g \in Handlers \ {h} : coroutines'[g] = coroutines[g]]_allVars

\* A unit runs under a pending alarm in the call of one handler while the
\* other handler awaits its reply and the monitoring task sleeps between two
\* polls.
C31_Witness ==
    /\ Executing("run_command")
    /\ frames["main"].pc = "exec"
    /\ alarm = "pending"
    /\ coroutines["handle_message"] = "await_reply"
    /\ monitoring_task = "running"
    /\ mpc = "sleep"
====
